---------------------------- MODULE Spec2Model ----------------------------
(***************************************************************************)
(* Model of the shipment cleaning pipeline of delivery_time_analyzer       *)
(* (src/src/main.py and src/src/cleaning/*.py).                            *)
(*                                                                         *)
(* The DataFrame is a sequence of rows.  Every row carries the pandas row  *)
(* label `idx` it received from read_csv.  Text cells are sequences of     *)
(* one-character strings, so that str.strip, str.title and str.lower are   *)
(* computed and not tabulated.  CSV files written by to_csv are recorded   *)
(* as write events (stage, path, rows).                                    *)
(***************************************************************************)
EXTENDS Integers, Sequences, FiniteSets, TLC

(***************************************************************************)
(* Bounds of the model.                                                    *)
(***************************************************************************)
MaxRows == 2
MaxId == 2

(***************************************************************************)
(* Missing values.  NaN stands for NaN / NaT / pd.NA in a numeric or date  *)
(* column, NaNTxt for NaN in an object (text) column.                      *)
(***************************************************************************)
NaN == -999
NaNTxt == <<"NaN">>

isna(v) == v = NaN
isnaTxt(t) == t = NaNTxt

(***************************************************************************)
(* Characters and the Python string methods the cleaning modules use.      *)
(***************************************************************************)
LowerAlpha == <<"a","b","c","d","e","f","g","h","i","j","k","l","m",
                "n","o","p","q","r","s","t","u","v","w","x","y","z">>
UpperAlpha == <<"A","B","C","D","E","F","G","H","I","J","K","L","M",
                "N","O","P","Q","R","S","T","U","V","W","X","Y","Z">>

IsLowerCh(c) == \E i \in 1..26 : LowerAlpha[i] = c
IsUpperCh(c) == \E i \in 1..26 : UpperAlpha[i] = c
IsCased(c) == IsLowerCh(c) \/ IsUpperCh(c)
IsSpaceCh(c) == c = " "

LowerCh(c) ==
    IF IsUpperCh(c) THEN LowerAlpha[CHOOSE i \in 1..26 : UpperAlpha[i] = c] ELSE c
UpperCh(c) ==
    IF IsLowerCh(c) THEN UpperAlpha[CHOOSE i \in 1..26 : LowerAlpha[i] = c] ELSE c

\* str.strip(): drop leading and trailing whitespace
RECURSIVE LStrip(_)
LStrip(t) == IF t # <<>> /\ IsSpaceCh(Head(t)) THEN LStrip(Tail(t)) ELSE t
RECURSIVE RStrip(_)
RStrip(t) ==
    IF t # <<>> /\ IsSpaceCh(t[Len(t)]) THEN RStrip(SubSeq(t, 1, Len(t) - 1)) ELSE t
PyStrip(t) == RStrip(LStrip(t))

\* str.title(): a cased character is upper-cased when it does not follow a
\* cased character and lower-cased when it does
PyTitle(t) ==
    [i \in 1..Len(t) |->
        IF i > 1 /\ IsCased(t[i - 1]) THEN LowerCh(t[i]) ELSE UpperCh(t[i])]

\* str.lower()
PyLower(t) == [i \in 1..Len(t) |-> LowerCh(t[i])]

\* Series.str.<method> leaves NaN as NaN
StrStrip(t) == IF isnaTxt(t) THEN NaNTxt ELSE PyStrip(t)
StrTitle(t) == IF isnaTxt(t) THEN NaNTxt ELSE PyTitle(t)

\* Series.astype(str): NaN becomes the text "nan"
AsTypeStr(t) == IF isnaTxt(t) THEN <<"n","a","n">> ELSE t

(***************************************************************************)
(* Text constants of the program.                                          *)
(***************************************************************************)
North == <<"N","o","r","t","h">>
South == <<"S","o","u","t","h">>
East == <<"E","a","s","t">>
West == <<"W","e","s","t">>
valid_regions == {North, South, East, West}

corrections ==
    << <<(<<"N","o","t","h">>), North>>,
       <<(<<"S","o","t","h">>), South>>,
       <<(<<"E","e","s","t">>), East>>,
       <<(<<"W","e","s">>), West>> >>

invalid_values ==
    { <<"n","o","n","e">>, <<"n","a","n">>, <<"n","u","l","l">>,
      <<"u","n","d","e","f","i","n","e","d">>, <<"m","i","s","s","i","n","g">>,
      <<" ">> }

Delivered == <<"D","e","l","i","v","e","r","e","d">>
InTransit == <<"I","n"," ","T","r","a","n","s","i","t">>
Yes == <<"Y","e","s">>
No == <<"N","o">>

\* outlier window of detect_outliers / remove_outliers
MinDays == 1
MaxDays == 10


(***************************************************************************)
(* CSV cells.  A date cell is text: ISO text for a day, empty text, text   *)
(* that is no date, or text of spaces only.  A numeric cell is a number    *)
(* or empty (NaN).                                                         *)
(***************************************************************************)
IsoCell(d) == [txt |-> "iso", day |-> d]
EmptyDateCell == [txt |-> "empty", day |-> NaN]
BadDateCell == [txt |-> "bad", day |-> NaN]
BlankDateCell == [txt |-> "blank", day |-> NaN]

\* pandas' default na_values (those that can occur in a text column here)
NaValues ==
    { <<>>, <<"N","/","A">>, <<"n","/","a">>, <<"N","A">>, <<"N","U","L","L">>,
      <<"n","u","l","l">>, <<"N","a","N">>, <<"n","a","n">>, <<"N","o","n","e">>,
      <<"#","N","/","A">>, <<"<","N","A",">">> }

\* variant: the cell is stripped before it is compared with the NA tokens
ReadTxt_Stripped(cell) == IF PyStrip(cell) \in NaValues THEN NaNTxt ELSE cell

\* read_csv on one text cell
ReadTxt(cell) == IF cell \in NaValues THEN NaNTxt ELSE cell

\* pd.to_datetime(..., errors="coerce") on one cell (after .replace("", pd.NA))
ToDatetime(cell) == IF cell.txt = "iso" THEN cell.day ELSE NaN

\* dtype inference of read_csv for a text column: object unless every cell of
\* a non-empty column is missing (then float64, which has no .str accessor)
IsObjectColumn(rows, col) ==
    rows = <<>> \/ \E i \in 1..Len(rows) : ReadTxt(rows[i][col]) # NaNTxt

\* load_data: no row is dropped; row labels are 0, 1, 2, ...
\* The status and delivery_days columns, absent from the raw file, are read
\* as all-missing columns.
load_data(rows) ==
    [i \in 1..Len(rows) |->
        [idx |-> i - 1,
         shipment_id |-> rows[i].shipment_id,
         ship_date |-> ToDatetime(rows[i].ship_date),
         delivery_date |-> ToDatetime(rows[i].delivery_date),
         origin_region |-> ReadTxt(rows[i].origin_region),
         destination_region |-> ReadTxt(rows[i].destination_region),
         holiday_period |-> ReadTxt(rows[i].holiday_period),
         status |-> ReadTxt(rows[i].status),
         delivery_days |-> rows[i].delivery_days]]

(***************************************************************************)
(* DataFrame helpers.                                                      *)
(***************************************************************************)
Rows(df) == {df[i] : i \in 1..Len(df)}
Labels(df) == {df[i].idx : i \in 1..Len(df)}

\* df[mask]: the rows satisfying Test, in order
Filter(df, Test(_)) == SelectSeq(df, Test)

\* DataFrame.to_csv(path): a write event; callers write only non-empty frames
ToCsv(w, stage, path, rows) ==
    Append(w, [stage |-> stage, path |-> path, rows |-> rows])

\* variant: the file is written also when the frame is empty
ToCsvIfAny_Always(w, stage, path, rows) == ToCsv(w, stage, path, rows)

ToCsvIfAny(w, stage, path, rows) ==
    IF rows # <<>> THEN ToCsv(w, stage, path, rows) ELSE w

(***************************************************************************)
(* ids_cleaning.py                                                         *)
(***************************************************************************)
\* variant: the smallest id is taken
MaxIdOf_Min(df) ==
    LET ids == {df[i].shipment_id : i \in 1..Len(df)} \ {NaN}
    IN  IF ids = {} THEN NaN ELSE CHOOSE m \in ids : \A x \in ids : m <= x

\* Series.max(skipna=True): NaN when no value is present
MaxIdOf(df) ==
    LET ids == {df[i].shipment_id : i \in 1..Len(df)} \ {NaN}
    IN  IF ids = {} THEN NaN ELSE CHOOSE m \in ids : \A x \in ids : x <= m

\* variant: the new ids are handed out from the last row upwards
MissingRank_FromLast(df, i) == Cardinality({j \in i..Len(df) : isna(df[j].shipment_id)})

\* number of rows with a missing id among the first i rows
MissingRank(df, i) == Cardinality({j \in 1..i : isna(df[j].shipment_id)})

\* int(max_id) raises ValueError on NaN
FixMissingIdsRaises(df) ==
    /\ \E i \in 1..Len(df) : isna(df[i].shipment_id)
    /\ isna(MaxIdOf(df))

\* variant: the new ids start at the maximum itself
FirstNewId_NoIncrement(max_id) == max_id

\* first value of range(int(max_id) + 1, ...)
FirstNewId(max_id) == max_id + 1

fix_missing_ids_df(df) ==
    [i \in 1..Len(df) |->
        IF isna(df[i].shipment_id)
        THEN [df[i] EXCEPT !.shipment_id = FirstNewId(MaxIdOf(df)) + MissingRank(df, i) - 1]
        ELSE df[i]]

\* variant: the rows are logged as they were before the assignment
fix_missing_ids_log_PreRepair(df) ==
    Filter(df, LAMBDA r : isna(r.shipment_id))

fix_missing_ids_log(df) ==
    LET k == MissingRank(df, Len(df))
        first == FirstNewId(MaxIdOf(df))
        new_ids == first .. (first + k - 1)
        fixed == fix_missing_ids_df(df)
    IN  Filter(fixed, LAMBDA r : r.shipment_id \in new_ids)

\* variant: duplicated(keep="first") does not mark the first occurrence
IsDuplicatedId_NotFirst(df, r) ==
    \E i \in 1..Len(df) : df[i].shipment_id = r.shipment_id /\ df[i].idx < r.idx

\* Series.duplicated(keep=False)
IsDuplicatedId(df, r) ==
    Cardinality({i \in 1..Len(df) : df[i].shipment_id = r.shipment_id}) > 1

duplicate_rows(df) == Filter(df, LAMBDA r : IsDuplicatedId(df, r))

\* variant: drop_duplicates() without subset compares whole rows
KeepOccurrence_WholeRow(df, i) ==
    \A j \in 1..(i - 1) : [df[j] EXCEPT !.idx = 0] # [df[i] EXCEPT !.idx = 0]

\* drop_duplicates(subset=["shipment_id"], keep="first")
KeepOccurrence(df, i) == \A j \in 1..(i - 1) : df[j].shipment_id # df[i].shipment_id

\* variant: drop_duplicates(keep="last")
drop_duplicates_KeepLast(df) ==
    Filter(df, LAMBDA r :
        \A j \in 1..Len(df) :
            df[j].shipment_id = r.shipment_id => df[j].idx <= r.idx)

drop_duplicates(df) ==
    LET keep == {i \in 1..Len(df) : KeepOccurrence(df, i)}
        RECURSIVE Build(_)
        Build(i) == IF i > Len(df) THEN <<>>
                    ELSE IF i \in keep THEN <<df[i]>> \o Build(i + 1)
                    ELSE Build(i + 1)
    IN  Build(1)

remove_duplicate_shipment_ids_df(df) ==
    IF duplicate_rows(df) # <<>> THEN drop_duplicates(df) ELSE df

(***************************************************************************)
(* date_cleaning.py                                                        *)
(***************************************************************************)
\* comparisons with NaT are False
DateLt(a, b) == ~isna(a) /\ ~isna(b) /\ a < b
DateGe(a, b) == ~isna(a) /\ ~isna(b) /\ a >= b

\* variant: the test reads the delivery_date column
IsMissingShipDate_WrongColumn(r) == isna(r.delivery_date)

\* isna() | astype(str).str.strip() == "": a datetime never prints as ""
IsMissingShipDate(r) == isna(r.ship_date)

missing_ship_date(df) == Filter(df, IsMissingShipDate)

\* DataFrame.drop(part.index): drop the rows carrying the labels of part
DropLabels(df, part) == Filter(df, LAMBDA r : r.idx \notin Labels(part))

handle_missing_ship_dates_df(df) == DropLabels(df, missing_ship_date(df))

\* variant: the keep mask lacks the isna() disjunct
KeepDelivery_NoNaT(r) == DateGe(r.delivery_date, r.ship_date)

\* variant: the log mask compares with <=
IsInvalidDelivery_OrEqual(r) ==
    DateLt(r.delivery_date, r.ship_date) \/ r.delivery_date = r.ship_date

IsInvalidDelivery(r) == DateLt(r.delivery_date, r.ship_date)
KeepDelivery(r) == isna(r.delivery_date) \/ DateGe(r.delivery_date, r.ship_date)

invalid_dates(df) == Filter(df, IsInvalidDelivery)

\* variant: the in-transit rows and the delivered rows are concatenated
handle_invalid_delivery_date_df_Concat(df) ==
    Filter(df, LAMBDA r : isna(r.delivery_date))
        \o Filter(df, LAMBDA r : DateGe(r.delivery_date, r.ship_date))

handle_invalid_delivery_date_df(df) == Filter(df, KeepDelivery)

\* variant: the status is derived from the ship_date column
StatusOf_ShipDate(r) == IF ~isna(r.ship_date) THEN Delivered ELSE InTransit

StatusOf(r) == IF ~isna(r.delivery_date) THEN Delivered ELSE InTransit

handle_missing_delivery_date_df(df) ==
    [i \in 1..Len(df) |-> [df[i] EXCEPT !.status = StatusOf(df[i])]]

\* variant: the two isna() masks are combined with |
IsBothDatesMissing_Either(r) == isna(r.ship_date) \/ isna(r.delivery_date)

IsBothDatesMissing(r) == isna(r.ship_date) /\ isna(r.delivery_date)
both_missing(df) == Filter(df, IsBothDatesMissing)
handle_both_missing_dates_df(df) == DropLabels(df, both_missing(df))

(***************************************************************************)
(* region_cleaning.py                                                      *)
(***************************************************************************)
\* variant: the text is title-cased without being stripped
NormalizeTxt_NoStrip(t) == StrTitle(t)

NormalizeTxt(t) == StrTitle(StrStrip(t))

normalize_region_format_df(df) ==
    [i \in 1..Len(df) |->
        [df[i] EXCEPT !.origin_region = NormalizeTxt(@),
                      !.destination_region = NormalizeTxt(@)]]

missing_origin(df) == Filter(df, LAMBDA r : isnaTxt(r.origin_region))
missing_destination(df) == Filter(df, LAMBDA r : isnaTxt(r.destination_region))

\* variant: only rows missing both regions count as inconsistent
IsInconsistent_Both(r) ==
    /\ r.status = Delivered
    /\ (isnaTxt(r.origin_region) /\ isnaTxt(r.destination_region))

IsInconsistent(r) ==
    /\ r.status = Delivered
    /\ (isnaTxt(r.origin_region) \/ isnaTxt(r.destination_region))

inconsistent_shipments(df) == Filter(df, IsInconsistent)

log_missing_regions_w(w, stage, df) ==
    LET w1 == ToCsvIfAny(w, stage, "shipments_missing_origin_region.csv",
                         missing_origin(df))
        w2 == ToCsvIfAny(w1, stage, "shipments_missing_destination_region.csv",
                         missing_destination(df))
    IN  ToCsvIfAny(w2, stage, "shipments_inconsistent_regions.csv",
                   inconsistent_shipments(df))

\* DataFrame.replace(corrections): a cell equal to a key becomes its value
Correct(t) ==
    IF \E k \in 1..Len(corrections) : corrections[k][1] = t
    THEN corrections[CHOOSE k \in 1..Len(corrections) : corrections[k][1] = t][2]
    ELSE t

\* every text column of the frame is searched
ReplaceRow(r) ==
    [r EXCEPT !.origin_region = Correct(@),
              !.destination_region = Correct(@),
              !.holiday_period = Correct(@),
              !.status = Correct(@)]

replace_corrections(df) == [i \in 1..Len(df) |-> ReplaceRow(df[i])]

\* variant: rows without a region are not marked
IsInvalidRegionRow_NotNull(r) ==
    \/ ~isnaTxt(r.origin_region) /\ r.origin_region \notin valid_regions
    \/ ~isnaTxt(r.destination_region) /\ r.destination_region \notin valid_regions

IsInvalidRegionRow(r) ==
    \/ r.origin_region \notin valid_regions
    \/ r.destination_region \notin valid_regions

invalid_regions(df) == Filter(df, IsInvalidRegionRow)

validate_and_correct_regions_df(df) == replace_corrections(df)

validate_and_correct_regions_w(w, stage, df) ==
    ToCsvIfAny(w, stage, "shipments_invalid_regions.csv",
               invalid_regions(replace_corrections(df)))

clean_regions_df(df) ==
    validate_and_correct_regions_df(normalize_region_format_df(df))

\* variant: clean_regions without its log_missing_regions call
clean_regions_w_NoAudit(w, stage, df) ==
    validate_and_correct_regions_w(w, stage, normalize_region_format_df(df))

clean_regions_w(w, stage, df) ==
    LET d1 == normalize_region_format_df(df)
    IN  validate_and_correct_regions_w(log_missing_regions_w(w, stage, d1), stage, d1)

\* isna() | astype(str).str.strip() == ""
IsBlankRegion(t) == isnaTxt(t) \/ PyStrip(AsTypeStr(t)) = <<>>

IsMissingBothRegions(r) ==
    IsBlankRegion(r.origin_region) /\ IsBlankRegion(r.destination_region)
IsMissingEitherRegion(r) ==
    IsBlankRegion(r.origin_region) \/ IsBlankRegion(r.destination_region)

missing_both(df) == Filter(df, IsMissingBothRegions)
drop_shipments_missing_both_regions_df(df) == DropLabels(df, missing_both(df))

missing_either(df) == Filter(df, IsMissingEitherRegion)
drop_shipments_with_missing_region_df(df) == DropLabels(df, missing_either(df))

\* the two region columns after astype(str)
RegionsAsStr(df) ==
    [i \in 1..Len(df) |->
        [df[i] EXCEPT !.origin_region = AsTypeStr(@),
                      !.destination_region = AsTypeStr(@)]]

\* variant: the columns are compared without str.lower()
RegionMask_CaseSensitive(r) ==
    /\ r.origin_region \notin invalid_values
    /\ r.destination_region \notin invalid_values

RegionMask(r) ==
    /\ PyLower(r.origin_region) \notin invalid_values
    /\ PyLower(r.destination_region) \notin invalid_values

invalid_region_text(df) == Filter(RegionsAsStr(df), LAMBDA r : ~RegionMask(r))
remove_invalid_region_strings_df(df) == Filter(RegionsAsStr(df), RegionMask)

(***************************************************************************)
(* duration_cleaning.py                                                    *)
(***************************************************************************)
\* variant: the subtraction is ship_date - delivery_date
DaysBetween_Reversed(r) ==
    IF isna(r.delivery_date) \/ isna(r.ship_date) THEN NaN
    ELSE r.ship_date - r.delivery_date

\* (delivery_date - ship_date).dt.days, NaN when either date is NaT
DaysBetween(r) ==
    IF isna(r.delivery_date) \/ isna(r.ship_date) THEN NaN
    ELSE r.delivery_date - r.ship_date

calculate_delivery_days(df) ==
    [i \in 1..Len(df) |-> [df[i] EXCEPT !.delivery_days = DaysBetween(df[i])]]

\* variant: the upper test is >= 10
IsOutlier_TenIncluded(r) ==
    ~isna(r.delivery_days) /\ (r.delivery_days < MinDays \/ r.delivery_days >= MaxDays)

\* (delivery_days < 1) | (delivery_days > 10); <NA> selects nothing
IsOutlier(r) ==
    ~isna(r.delivery_days) /\ (r.delivery_days < MinDays \/ r.delivery_days > MaxDays)

outliers(df) == Filter(df, IsOutlier)

\* variant: the window starts at 0
KeepDuration_FromZero(r) ==
    \/ isna(r.delivery_days)
    \/ (r.delivery_days >= 0 /\ r.delivery_days <= MaxDays)

\* isna() | between(1, 10, inclusive="both")
KeepDuration(r) ==
    \/ isna(r.delivery_days)
    \/ (r.delivery_days >= MinDays /\ r.delivery_days <= MaxDays)

\* variant: the isna() mask is left out of the combined mask
remove_outliers_DropsNull(df) ==
    Filter(df, LAMBDA r : ~isna(r.delivery_days) /\ KeepDuration(r))

remove_outliers(df) == Filter(df, KeepDuration)

handle_delivery_durations_df(df) == remove_outliers(calculate_delivery_days(df))

\* variant: detect_outliers is called on what remove_outliers returns
handle_delivery_durations_w_AfterRemove(w, stage, df) ==
    ToCsvIfAny(w, stage, "shipments_outliers.csv",
               outliers(remove_outliers(calculate_delivery_days(df))))

handle_delivery_durations_w(w, stage, df) ==
    ToCsvIfAny(w, stage, "shipments_outliers.csv", outliers(calculate_delivery_days(df)))

(***************************************************************************)
(* save_data.py and the cast in main()                                     *)
(***************************************************************************)
\* shipment_id.astype(int) raises when an id is missing
AsTypeIntRaises(df) == \E i \in 1..Len(df) : isna(df[i].shipment_id)

DateCell(d) == IF isna(d) THEN EmptyDateCell ELSE IsoCell(d)
TxtCell(t) == IF isnaTxt(t) THEN <<>> ELSE t

\* the rows of the cleaned CSV file (index=False: the row label is not written)
save_cleaned_data(df) ==
    [i \in 1..Len(df) |->
        [shipment_id |-> df[i].shipment_id,
         ship_date |-> DateCell(df[i].ship_date),
         delivery_date |-> DateCell(df[i].delivery_date),
         origin_region |-> TxtCell(df[i].origin_region),
         destination_region |-> TxtCell(df[i].destination_region),
         holiday_period |-> TxtCell(df[i].holiday_period),
         status |-> TxtCell(df[i].status),
         delivery_days |-> df[i].delivery_days]]

(***************************************************************************)
(* The input batches.                                                      *)
(***************************************************************************)
RawRow(id, ship, delivery, origin, destination, holiday) ==
    [shipment_id |-> id, ship_date |-> ship, delivery_date |-> delivery,
     origin_region |-> origin, destination_region |-> destination,
     holiday_period |-> holiday, status |-> <<>>, delivery_days |-> NaN]

IdCells == {NaN} \cup (1..MaxId)

\* rows with clean regions: every id cell with the common date shapes
RowsById ==
    { RawRow(id, d[1], d[2], North, South, No) :
        id \in IdCells,
        d \in { <<IsoCell(20), IsoCell(22)>>,        \* delivered after 2 days
                <<IsoCell(20), EmptyDateCell>>,      \* in transit
                <<EmptyDateCell, IsoCell(22)>> } }   \* no ship date

\* rows with clean regions and the remaining date defects
RowsByDate ==
    { RawRow(1, d[1], d[2], East, West, Yes) :
        d \in { <<EmptyDateCell, EmptyDateCell>>,    \* both dates missing
                <<BadDateCell, IsoCell(22)>>,        \* ship date is no date
                <<IsoCell(20), IsoCell(18)>>,        \* delivered before shipped
                <<IsoCell(20), IsoCell(20)>>,        \* 0 days
                <<IsoCell(20), IsoCell(30)>>,        \* 10 days
                <<IsoCell(20), IsoCell(31)>>,        \* 11 days
                <<IsoCell(20), IsoCell(34)>> } }     \* 14 days

\* rows with clean dates and the region defects
RowsByRegion ==
    { RawRow(g[1], IsoCell(20), IsoCell(22), g[2], g[3], No) :
        g \in { << 1, <<" ","n","o","r","t","h"," ">>, <<"W","E","S","T"," ">> >>,
                << 2, <<"N","o","t","h">>, <<"W","e","s">> >>,
                << 1, <<"s","O","T","H">>, <<" ","e","E","S","T">> >>,
                << 1, <<"Z","z","z">>, South >>,
                << 1, <<>>, South >>,
                << 1, North, <<>> >>,
                << 1, <<>>, <<>> >>,
                << 1, <<" ">>, South >>,
                << 1, <<"N","O","N","E">>, South >>,
                << 1, North, <<"N","/","a">> >> } }
    \cup { RawRow(1, IsoCell(20), BlankDateCell, <<>>, South, Yes) }

RawRows == RowsById \cup RowsByDate \cup RowsByRegion

Batches == UNION { [1..n -> RawRows] : n \in 0..MaxRows }

(***************************************************************************)
(* State.                                                                  *)
(*   csv      the rows of the file main() reads                            *)
(*   df       shipments_df                                                 *)
(*   writes   the log files written so far, in order                       *)
(*   outputs  the cleaned files written so far, in order                   *)
(*   pc       the statement of main() to execute next                      *)
(*   run      1 for the run on the raw file, 2 for the run on the cleaned  *)
(*            file the first run wrote                                     *)
(***************************************************************************)
VARIABLES csv, df, writes, outputs, pc, run

vars == <<csv, df, writes, outputs, pc, run>>

Init ==
    /\ csv \in Batches
    /\ df = <<>>
    /\ writes = <<>>
    /\ outputs = <<>>
    /\ pc = "load_data"
    /\ run = 1

\* a stage that replaces the frame, writes zero or more files and goes on
Step(next, newdf, neww) ==
    /\ df' = newdf
    /\ writes' = neww
    /\ pc' = next
    /\ UNCHANGED <<csv, outputs, run>>

\* a stage that raises: main() ends with the traceback
Raise ==
    /\ pc' = "aborted"
    /\ UNCHANGED <<csv, df, writes, outputs, run>>

LoadData ==
    /\ pc = "load_data"
    /\ Step("fix_missing_ids", load_data(csv), writes)

FixMissingIds ==
    /\ pc = "fix_missing_ids"
    /\ IF FixMissingIdsRaises(df)
       THEN Raise
       ELSE Step("remove_duplicate_shipment_ids",
                 fix_missing_ids_df(df),
                 ToCsvIfAny(writes, "fix_missing_ids", "shipments_reassigned_ids.csv",
                            IF \E i \in 1..Len(df) : isna(df[i].shipment_id)
                            THEN fix_missing_ids_log(df) ELSE <<>>))

RemoveDuplicateShipmentIds ==
    /\ pc = "remove_duplicate_shipment_ids"
    /\ Step("handle_missing_ship_dates",
            remove_duplicate_shipment_ids_df(df),
            ToCsvIfAny(writes, "remove_duplicate_shipment_ids",
                       "shipments_duplicate_ids.csv", duplicate_rows(df)))

\* variant: main() goes on to the date-order check without the stage
HandleMissingShipDates_Skipped ==
    /\ pc = "handle_missing_ship_dates"
    /\ Step("handle_invalid_delivery_date", df, writes)

HandleMissingShipDates ==
    /\ pc = "handle_missing_ship_dates"
    /\ Step("handle_invalid_delivery_date",
            handle_missing_ship_dates_df(df),
            ToCsvIfAny(writes, "handle_missing_ship_dates",
                       "shipments_missing_ship_date.csv", missing_ship_date(df)))

HandleInvalidDeliveryDate ==
    /\ pc = "handle_invalid_delivery_date"
    /\ Step("handle_missing_delivery_date",
            handle_invalid_delivery_date_df(df),
            ToCsvIfAny(writes, "handle_invalid_delivery_date",
                       "shipments_invalid_delivery_dates.csv", invalid_dates(df)))

HandleMissingDeliveryDate ==
    /\ pc = "handle_missing_delivery_date"
    /\ Step("handle_both_missing_dates",
            handle_missing_delivery_date_df(df), writes)

HandleBothMissingDates ==
    /\ pc = "handle_both_missing_dates"
    /\ Step("normalize_region_format",
            handle_both_missing_dates_df(df),
            ToCsvIfAny(writes, "handle_both_missing_dates",
                       "shipments_missing_both_dates.csv", both_missing(df)))

\* the .str accessor raises AttributeError on a column that is not text
NormalizeRaises ==
    ~IsObjectColumn(csv, "origin_region") \/ ~IsObjectColumn(csv, "destination_region")

NormalizeRegionFormat ==
    /\ pc = "normalize_region_format"
    /\ IF NormalizeRaises
       THEN Raise
       ELSE Step("log_missing_regions",
                 normalize_region_format_df(df), writes)

LogMissingRegions ==
    /\ pc = "log_missing_regions"
    /\ Step("validate_and_correct_regions",
            df, log_missing_regions_w(writes, "log_missing_regions", df))

ValidateAndCorrectRegions ==
    /\ pc = "validate_and_correct_regions"
    /\ Step("clean_regions",
            validate_and_correct_regions_df(df),
            validate_and_correct_regions_w(writes, "validate_and_correct_regions", df))

CleanRegions ==
    /\ pc = "clean_regions"
    /\ Step("drop_shipments_missing_both_regions",
            clean_regions_df(df), clean_regions_w(writes, "clean_regions", df))

DropShipmentsMissingBothRegions ==
    /\ pc = "drop_shipments_missing_both_regions"
    /\ Step("drop_shipments_with_missing_region",
            drop_shipments_missing_both_regions_df(df),
            ToCsvIfAny(writes, "drop_shipments_missing_both_regions",
                       "shipments_missing_both_regions.csv", missing_both(df)))

DropShipmentsWithMissingRegion ==
    /\ pc = "drop_shipments_with_missing_region"
    /\ Step("remove_invalid_region_strings",
            drop_shipments_with_missing_region_df(df),
            ToCsvIfAny(writes, "drop_shipments_with_missing_region",
                       "shipments_missing_region.csv", missing_either(df)))

RemoveInvalidRegionStrings ==
    /\ pc = "remove_invalid_region_strings"
    /\ Step("calculate_delivery_days",
            remove_invalid_region_strings_df(df),
            ToCsvIfAny(writes, "remove_invalid_region_strings",
                       "shipments_invalid_region_text.csv", invalid_region_text(df)))

CalculateDeliveryDays ==
    /\ pc = "calculate_delivery_days"
    /\ Step("detect_outliers",
            calculate_delivery_days(df), writes)

DetectOutliers ==
    /\ pc = "detect_outliers"
    /\ Step("remove_outliers", df,
            ToCsvIfAny(writes, "detect_outliers", "shipments_outliers.csv", outliers(df)))

RemoveOutliers ==
    /\ pc = "remove_outliers"
    /\ Step("handle_delivery_durations", remove_outliers(df), writes)

HandleDeliveryDurations ==
    /\ pc = "handle_delivery_durations"
    /\ Step("save_cleaned_data",
            handle_delivery_durations_df(df),
            handle_delivery_durations_w(writes, "handle_delivery_durations", df))

SaveCleanedData ==
    /\ pc = "save_cleaned_data"
    /\ IF AsTypeIntRaises(df)
       THEN Raise
       ELSE /\ outputs' = Append(outputs, save_cleaned_data(df))
            /\ pc' = "done"
            /\ UNCHANGED <<csv, df, writes, run>>

\* main() is run again, on the cleaned file it wrote
Rerun ==
    /\ pc = "done"
    /\ run = 1
    /\ csv' = outputs[1]
    /\ df' = <<>>
    /\ pc' = "load_data"
    /\ run' = 2
    /\ UNCHANGED <<writes, outputs>>

Next ==
    \/ LoadData
    \/ FixMissingIds
    \/ RemoveDuplicateShipmentIds
    \/ HandleMissingShipDates
    \/ HandleInvalidDeliveryDate
    \/ HandleMissingDeliveryDate
    \/ HandleBothMissingDates
    \/ NormalizeRegionFormat
    \/ LogMissingRegions
    \/ ValidateAndCorrectRegions
    \/ CleanRegions
    \/ DropShipmentsMissingBothRegions
    \/ DropShipmentsWithMissingRegion
    \/ RemoveInvalidRegionStrings
    \/ CalculateDeliveryDays
    \/ DetectOutliers
    \/ RemoveOutliers
    \/ HandleDeliveryDurations
    \/ SaveCleanedData
    \/ Rerun

Spec == Init /\ [][Next]_vars

(***************************************************************************)
(* main() on files of up to MaxIdRows rows that differ in their id cells:  *)
(* several missing ids and several occurrences of one id in one file.      *)
(***************************************************************************)
MaxIdRows == 3

IdRows ==
    { RawRow(id, IsoCell(20), d, North, South, No) :
        id \in IdCells, d \in {IsoCell(22), EmptyDateCell} }

IdBatches == UNION { [1..n -> IdRows] : n \in 0..MaxIdRows }

InitIds ==
    /\ csv \in IdBatches
    /\ df = <<>>
    /\ writes = <<>>
    /\ outputs = <<>>
    /\ pc = "load_data"
    /\ run = 1

SpecIds == InitIds /\ [][Next]_vars

(***************************************************************************)
(* The stage functions called on their own.  The date and duration stages  *)
(* are module-level functions that take any loaded frame: here they are    *)
(* called on the frame load_data returns, any number of times and in any   *)
(* order.                                                                  *)
(***************************************************************************)
MaxCallRows == 2

CallRows ==
    RowsByDate
    \cup { RawRow(2, IsoCell(20), EmptyDateCell, North, South, No),   \* in transit
           RawRow(2, EmptyDateCell, IsoCell(22), North, South, No) }  \* no ship date

CallBatches == UNION { [1..n -> CallRows] : n \in 0..MaxCallRows }

InitCall ==
    /\ csv \in CallBatches
    /\ df = load_data(csv)
    /\ writes = <<>>
    /\ outputs = <<>>
    /\ pc = "stage_call"
    /\ run = 1

CallHandleMissingShipDates ==
    /\ pc = "stage_call"
    /\ Step("stage_call",
            handle_missing_ship_dates_df(df),
            ToCsvIfAny(writes, "handle_missing_ship_dates",
                       "shipments_missing_ship_date.csv", missing_ship_date(df)))

CallHandleInvalidDeliveryDate ==
    /\ pc = "stage_call"
    /\ Step("stage_call",
            handle_invalid_delivery_date_df(df),
            ToCsvIfAny(writes, "handle_invalid_delivery_date",
                       "shipments_invalid_delivery_dates.csv", invalid_dates(df)))

CallHandleMissingDeliveryDate ==
    /\ pc = "stage_call"
    /\ Step("stage_call", handle_missing_delivery_date_df(df), writes)

CallHandleBothMissingDates ==
    /\ pc = "stage_call"
    /\ Step("stage_call",
            handle_both_missing_dates_df(df),
            ToCsvIfAny(writes, "handle_both_missing_dates",
                       "shipments_missing_both_dates.csv", both_missing(df)))

CallHandleDeliveryDurations ==
    /\ pc = "stage_call"
    /\ Step("stage_call",
            handle_delivery_durations_df(df),
            handle_delivery_durations_w(writes, "handle_delivery_durations", df))

NextCall ==
    \/ CallHandleMissingShipDates
    \/ CallHandleInvalidDeliveryDate
    \/ CallHandleMissingDeliveryDate
    \/ CallHandleBothMissingDates
    \/ CallHandleDeliveryDurations

NextStages ==
    \/ Next
    \/ NextCall

\* main() and the stage functions called on their own
SpecStages == (Init \/ InitCall) /\ [][NextStages]_vars

(***************************************************************************)
(* Vocabulary of the properties.                                           *)
(***************************************************************************)
\* the content of a log file: what the last write to its path wrote
FileRowsIn(w, path) ==
    LET ws == {k \in 1..Len(w) : w[k].path = path}
    IN  IF ws = {} THEN <<>>
        ELSE w[CHOOSE k \in ws : \A j \in ws : j <= k].rows

FileRows(path) == FileRowsIn(writes, path)

Logged(path) == Labels(FileRows(path))

DuplicateLog == "shipments_duplicate_ids.csv"
OutlierLog == "shipments_outliers.csv"

\* the log each removing rule writes
RejectionLogOf ==
    [s \in {"remove_duplicate_shipment_ids", "handle_missing_ship_dates",
            "handle_invalid_delivery_date", "handle_both_missing_dates",
            "drop_shipments_missing_both_regions",
            "drop_shipments_with_missing_region",
            "remove_invalid_region_strings", "remove_outliers",
            "handle_delivery_durations"} |->
        CASE s = "remove_duplicate_shipment_ids" -> DuplicateLog
          [] s = "handle_missing_ship_dates" -> "shipments_missing_ship_date.csv"
          [] s = "handle_invalid_delivery_date" -> "shipments_invalid_delivery_dates.csv"
          [] s = "handle_both_missing_dates" -> "shipments_missing_both_dates.csv"
          [] s = "drop_shipments_missing_both_regions" -> "shipments_missing_both_regions.csv"
          [] s = "drop_shipments_with_missing_region" -> "shipments_missing_region.csv"
          [] s = "remove_invalid_region_strings" -> "shipments_invalid_region_text.csv"
          [] s = "remove_outliers" -> OutlierLog
          [] s = "handle_delivery_durations" -> OutlierLog]

RejectionLogs == {RejectionLogOf[s] : s \in DOMAIN RejectionLogOf}

\* logs of the stages that remove nothing
AuditLogs ==
    {"shipments_reassigned_ids.csv", "shipments_missing_origin_region.csv",
     "shipments_missing_destination_region.csv", "shipments_inconsistent_regions.csv",
     "shipments_invalid_regions.csv"}

InputLabels == 0..(Len(csv) - 1)

\* main() has ended, normally or with a traceback
Ended == pc \in {"done", "aborted"}
Finished == pc = "done"

IdsOf(rows) == {rows[i].shipment_id : i \in 1..Len(rows)} \ {NaN}

\* the row carrying label i
RowAt(frame, i) == CHOOSE r \in Rows(frame) : r.idx = i

(***************************************************************************)
(* C1: after the full pipeline every surviving record has origin_region    *)
(* and destination_region in {North, South, East, West}; a record with an  *)
(* unrecognised region such as "Zzz" is absent from the final record set.  *)
(***************************************************************************)
C1_RegionsValid ==
    Finished =>
        \A i \in 1..Len(df) :
            /\ df[i].origin_region \in valid_regions
            /\ df[i].destination_region \in valid_regions

(***************************************************************************)
(* C2 as stated: when main() has ended, every record removed from the      *)
(* input is in exactly one rejection log and in no audit log, and no       *)
(* surviving record is in a rejection log.                                 *)
(***************************************************************************)
C2_ExactlyOneLog ==
    (Ended /\ run = 1) =>
        \A i \in InputLabels :
            IF i \in Labels(df)
            THEN \A p \in RejectionLogs : i \notin Logged(p)
            ELSE /\ Cardinality({p \in RejectionLogs : i \in Logged(p)}) = 1
                 /\ \A p \in AuditLogs : i \notin Logged(p)

(***************************************************************************)
(* C2 amended: a record a stage removes is in the rejection log of that    *)
(* stage's rule and in no other rejection log except possibly the          *)
(* duplicate-id log (it may also be in audit logs); when main() has ended  *)
(* a surviving record is in no rejection log other than the duplicate-id   *)
(* log.                                                                    *)
(***************************************************************************)
RemovedInStep == Labels(df) \ Labels(df')

C2_RemovalIsLogged ==
    (run = 1 /\ run' = 1 /\ RemovedInStep # {}) =>
        /\ pc \in DOMAIN RejectionLogOf
        /\ \A i \in RemovedInStep :
              /\ i \in Labels(FileRowsIn(writes', RejectionLogOf[pc]))
              /\ \A p \in RejectionLogs \ {RejectionLogOf[pc], DuplicateLog} :
                    i \notin Labels(FileRowsIn(writes', p))

C2_SurvivorsUnlogged ==
    (Ended /\ run = 1) =>
        \A i \in Labels(df) : \A p \in RejectionLogs \ {DuplicateLog} : i \notin Logged(p)

C2_Amended == [][C2_RemovalIsLogged]_vars /\ []C2_SurvivorsUnlogged

\* two records shared an id: the second was removed and is in the
\* duplicate-id log, and so is the first, which survived to the end
C2_Witness ==
    /\ Finished /\ run = 1
    /\ Len(csv) = 2 /\ Labels(df) = {0}
    /\ Logged(DuplicateLog) = {0, 1}

(***************************************************************************)
(* C3 as stated: the shipment ids of the surviving records and of all      *)
(* rejection logs together are exactly the shipment ids of the input.      *)
(***************************************************************************)
LoggedIds == UNION {IdsOf(FileRows(p)) : p \in RejectionLogs}

C3_IdsConserved ==
    (Ended /\ run = 1) => IdsOf(df) \cup LoggedIds = IdsOf(csv)

(***************************************************************************)
(* C3 amended: every input record is in the output or in a rejection log,  *)
(* and the shipment ids of the surviving records and of all rejection logs *)
(* together are the non-null ids of the input plus the ids M+1..M+k that   *)
(* fix_missing_ids gave to the k records without id (M the largest input   *)
(* id).                                                                    *)
(***************************************************************************)
InputMissing == {i \in 1..Len(csv) : csv[i].shipment_id = NaN}

ReassignedIds ==
    IF InputMissing = {} \/ IdsOf(csv) = {} THEN {}
    ELSE LET M == CHOOSE m \in IdsOf(csv) : \A x \in IdsOf(csv) : x <= m
         IN  (M + 1)..(M + Cardinality(InputMissing))

C3_Amended ==
    (Ended /\ run = 1) =>
        /\ \A i \in InputLabels :
              i \in Labels(df) \/ \E p \in RejectionLogs : i \in Logged(p)
        /\ pc = "done" => IdsOf(df) \cup LoggedIds = IdsOf(csv) \cup ReassignedIds

\* a record without id was given a new id and a record was rejected
C3_Witness ==
    /\ Finished /\ run = 1
    /\ ReassignedIds # {}
    /\ ReassignedIds \subseteq IdsOf(df)
    /\ LoggedIds # {}

(***************************************************************************)
(* C4: running main() on its own cleaned output writes an identical        *)
(* record set.                                                             *)
(***************************************************************************)
C4_Idempotent ==
    /\ (run = 2 /\ Ended) => pc = "done"
    /\ Len(outputs) = 2 => outputs[2] = outputs[1]

(***************************************************************************)
(* C5: after fix_missing_ids and remove_duplicate_shipment_ids, and in     *)
(* every later state of main(), every record has a non-null shipment_id    *)
(* and no two records share a shipment_id.                                 *)
(***************************************************************************)
BeforeDedupe == {"load_data", "fix_missing_ids", "remove_duplicate_shipment_ids"}

C5_IdsUniqueNonNull ==
    (pc \notin BeforeDedupe /\ pc # "aborted") =>
        /\ \A i \in 1..Len(df) : ~isna(df[i].shipment_id)
        /\ \A i, j \in 1..Len(df) : df[i].shipment_id = df[j].shipment_id => i = j

\* the run ends with two records, one of which got its id from
\* fix_missing_ids
C5_Witness ==
    /\ Finished /\ run = 1
    /\ Len(df) = 2
    /\ IdsOf(FileRows("shipments_reassigned_ids.csv")) # {}

(***************************************************************************)
(* C6: after the full pipeline every surviving record has a ship_date and  *)
(* a delivery_date that, when present, is not before the ship_date;        *)
(* handle_missing_ship_dates removes and logs exactly the records whose    *)
(* ship_date is null.                                                      *)
(***************************************************************************)
C6_DatesAtEnd ==
    Finished =>
        \A i \in 1..Len(df) :
            /\ ~isna(df[i].ship_date)
            /\ ~isna(df[i].delivery_date) => df[i].delivery_date >= df[i].ship_date

NullShipLabels == {r.idx : r \in {x \in Rows(df) : isna(x.ship_date)}}

C6_ShipDateStep ==
    pc = "handle_missing_ship_dates" =>
        /\ RemovedInStep = NullShipLabels
        /\ Labels(df') = Labels(df) \ NullShipLabels
        /\ NullShipLabels # {} =>
              /\ Len(writes') = Len(writes) + 1
              /\ writes'[Len(writes')].path = "shipments_missing_ship_date.csv"
              /\ Labels(writes'[Len(writes')].rows) = NullShipLabels
        /\ NullShipLabels = {} => writes' = writes

C6_Dates == []C6_DatesAtEnd /\ [][C6_ShipDateStep]_vars

\* a record without ship date was removed and logged, and a delivered
\* record reached the end
C6_Witness ==
    /\ Finished /\ run = 1
    /\ Logged("shipments_missing_ship_date.csv") # {}
    /\ \E i \in 1..Len(df) : ~isna(df[i].delivery_date)

BeforeStatus ==
    {"load_data", "fix_missing_ids", "remove_duplicate_shipment_ids",
     "handle_missing_ship_dates", "handle_invalid_delivery_date",
     "handle_missing_delivery_date"}

StatusDerived == pc \notin BeforeStatus /\ pc # "aborted"

C8_StatusState ==
    StatusDerived =>
        \A i \in 1..Len(df) :
            /\ ~isna(df[i].delivery_date) => df[i].status = Delivered
            /\ isna(df[i].delivery_date) => df[i].status = InTransit

C8_StatusStep ==
    /\ pc = "handle_missing_delivery_date" =>
          [i \in 1..Len(df') |-> df'[i].idx] = [i \in 1..Len(df) |-> df[i].idx]
    /\ (StatusDerived /\ pc # "done") =>
          \A i \in Labels(df') :
              /\ i \in Labels(df)
              /\ RowAt(df', i).status = RowAt(df, i).status
              /\ RowAt(df', i).delivery_date = RowAt(df, i).delivery_date

C8_Status == []C8_StatusState /\ [][C8_StatusStep]_vars

\* a delivered and an in-transit record reached the end
C8_Witness ==
    /\ Finished /\ run = 1
    /\ \E i, j \in 1..Len(df) : df[i].status = Delivered /\ df[j].status = InTransit

(***************************************************************************)
(* C9: no data-quality defect of the input makes main() abort.             *)
(***************************************************************************)
C9_NeverAborts == pc # "aborted"

(***************************************************************************)
(* C10: every stage of main() leaves an order-preserving sub-collection of *)
(* the collection it received: no record is added or duplicated, the count *)
(* never grows and the surviving records stay in ingestion order.          *)
(***************************************************************************)
LabelSeq(frame) == [i \in 1..Len(frame) |-> frame[i].idx]

IsSubSeq(a, b) ==
    \E keep \in SUBSET (1..Len(b)) :
        LET RECURSIVE Pick(_)
            Pick(k) == IF k > Len(b) THEN <<>>
                       ELSE IF k \in keep THEN <<b[k]>> \o Pick(k + 1)
                       ELSE Pick(k + 1)
        IN  Pick(1) = a

C10_StageStep ==
    (pc \notin {"load_data", "done"}) =>
        /\ IsSubSeq(LabelSeq(df'), LabelSeq(df))
        /\ Len(df') <= Len(df)

C10_IngestionOrder ==
    /\ \A i, j \in 1..Len(df) : i < j => df[i].idx < df[j].idx
    /\ pc # "load_data" => Labels(df) \subseteq InputLabels

C10_SubCollection == [][C10_StageStep]_vars /\ []C10_IngestionOrder

\* of two records the first was removed, the second reached the end
C10_Witness ==
    /\ Finished /\ run = 1
    /\ Len(csv) = 2 /\ Labels(df) = {1}

(***************************************************************************)
(* C11  fix_missing_ids, on a frame with k >= 1 rows without an id and at  *)
(* least one id, of maximum M, gives the rows without an id the ids M+1,   *)
(* M+2, ..., M+k in the order the rows have in the frame: every new id is  *)
(* greater than M, the new ids are pairwise distinct, and a row that had   *)
(* an id keeps it and all its other fields.                                *)
(***************************************************************************)
NullIdRows(frame) == {i \in 1..Len(frame) : isna(frame[i].shipment_id)}

C11_Step ==
    LET nulls == NullIdRows(df)
        present == {df[i].shipment_id : i \in (1..Len(df)) \ nulls}
    IN  (pc = "fix_missing_ids" /\ nulls # {} /\ present # {}) =>
            LET M == CHOOSE m \in present : \A x \in present : x <= m
            IN  /\ pc' = "remove_duplicate_shipment_ids"
                /\ Len(df') = Len(df)
                /\ \A i \in (1..Len(df)) \ nulls : df'[i] = df[i]
                /\ \A i \in nulls :
                      /\ df'[i] = [df[i] EXCEPT !.shipment_id = df'[i].shipment_id]
                      /\ df'[i].shipment_id =
                            M + Cardinality({j \in nulls : j <= i})
                      /\ df'[i].shipment_id > M
                /\ \A i, j \in nulls : i # j => df'[i].shipment_id # df'[j].shipment_id
                /\ {df'[i].shipment_id : i \in nulls} = (M + 1)..(M + Cardinality(nulls))

C11_EncounterOrder == [][C11_Step]_vars

\* a file of three records, the first and the last without an id, the second
\* with id 2: the first became 3 and the last 4
C11_Witness ==
    /\ pc = "remove_duplicate_shipment_ids" /\ run = 1
    /\ Len(csv) = 3 /\ Len(df) = 3
    /\ isna(csv[1].shipment_id) /\ csv[2].shipment_id = 2 /\ isna(csv[3].shipment_id)
    /\ df[1].shipment_id = 3 /\ df[2].shipment_id = 2 /\ df[3].shipment_id = 4

(***************************************************************************)
(* What one step writes: the files written during the step, and the rows   *)
(* the step wrote to one file (none when it did not write the file).       *)
(***************************************************************************)
WrittenPaths == {writes'[k].path : k \in (Len(writes) + 1)..Len(writes')}

WrittenRows(path) ==
    LET ks == {k \in (Len(writes) + 1)..Len(writes') : writes'[k].path = path}
    IN  IF ks = {} THEN <<>>
        ELSE writes'[CHOOSE k \in ks : \A j \in ks : j <= k].rows

AppendsOnly == /\ Len(writes') >= Len(writes)
               /\ SubSeq(writes', 1, Len(writes)) = writes

(***************************************************************************)
(* C12  remove_duplicate_shipment_ids logs every occurrence, the first     *)
(* included, of each shipment_id that occurs more than once, then keeps    *)
(* of each such id only the occurrence that is first in the frame and      *)
(* drops the later ones; rows whose id occurs once are kept unchanged and  *)
(* are not logged.                                                         *)
(***************************************************************************)
OccurrencesOf(frame, i) ==
    {j \in 1..Len(frame) : frame[j].shipment_id = frame[i].shipment_id}

C12_Step ==
    pc = "remove_duplicate_shipment_ids" =>
        LET repeated == {i \in 1..Len(df) : Cardinality(OccurrencesOf(df, i)) > 1}
            firsts == {i \in 1..Len(df) : \A j \in OccurrencesOf(df, i) : i <= j}
        IN  /\ AppendsOnly
            /\ WrittenPaths \subseteq {DuplicateLog}
            /\ WrittenRows(DuplicateLog) =
                  [n \in 1..Cardinality(repeated) |->
                      df[CHOOSE i \in repeated :
                            Cardinality({j \in repeated : j <= i}) = n]]
            /\ Rows(df') = {df[i] : i \in firsts}
            /\ Len(df') = Cardinality(firsts)
            /\ \A i \in (1..Len(df)) \ repeated :
                  /\ df[i] \in Rows(df')
                  /\ df[i].idx \notin Labels(WrittenRows(DuplicateLog))

C12_Duplicates == [][C12_Step]_vars

\* three records with the same id, and one record left of them, all logged
C12_Witness ==
    /\ pc = "handle_missing_ship_dates" /\ run = 1
    /\ Len(csv) = 3
    /\ \A i \in 1..3 : csv[i].shipment_id = 1
    /\ Labels(df) = {0}
    /\ Logged(DuplicateLog) = {0, 1, 2}

(***************************************************************************)
(* C13  handle_invalid_delivery_date, where main() calls it, drops and     *)
(* logs exactly the rows whose delivery_date is present and strictly       *)
(* earlier than ship_date; every row without a delivery_date is kept, and  *)
(* every row with delivery_date on or after ship_date (the same day        *)
(* included) is kept.                                                      *)
(***************************************************************************)
InvalidDeliveryLog == "shipments_invalid_delivery_dates.csv"

\* the rows of frame at the positions of the set at, in frame order
RowsAt(frame, at) ==
    [n \in 1..Cardinality(at) |->
        frame[CHOOSE i \in at : Cardinality({j \in at : j <= i}) = n]]

C13_Step ==
    pc = "handle_invalid_delivery_date" =>
        LET early == {i \in 1..Len(df) :
                        /\ ~isna(df[i].delivery_date)
                        /\ ~isna(df[i].ship_date)
                        /\ df[i].delivery_date < df[i].ship_date}
        IN  /\ AppendsOnly
            /\ WrittenPaths \subseteq {InvalidDeliveryLog}
            /\ WrittenRows(InvalidDeliveryLog) = RowsAt(df, early)
            /\ df' = RowsAt(df, (1..Len(df)) \ early)
            /\ \A i \in 1..Len(df) :
                  isna(df[i].delivery_date) => df[i] \in Rows(df')
            /\ \A i \in 1..Len(df) :
                  (/\ ~isna(df[i].delivery_date)
                   /\ ~isna(df[i].ship_date)
                   /\ df[i].delivery_date >= df[i].ship_date) => df[i] \in Rows(df')

BothDatesLog == "shipments_missing_both_dates.csv"

C14_Effect ==
    LET both == {i \in 1..Len(df) :
                    isna(df[i].ship_date) /\ isna(df[i].delivery_date)}
    IN  /\ df' = RowsAt(df, (1..Len(df)) \ both)
        /\ \A i \in 1..Len(df') :
              ~(isna(df'[i].ship_date) /\ isna(df'[i].delivery_date))
        /\ AppendsOnly
        /\ WrittenPaths \subseteq {BothDatesLog}
        /\ WrittenRows(BothDatesLog) = RowsAt(df, both)

C14_Step ==
    /\ (pc = "handle_both_missing_dates" \/ CallHandleBothMissingDates) => C14_Effect
    /\ pc = "handle_both_missing_dates" => (df' = df /\ writes' = writes)

C14_BothMissing == [][C14_Step]_vars

\* the function called first on a frame of a record without dates and a
\* record delivered before it was shipped: the first is logged and removed
C14_Witness ==
    /\ pc = "stage_call"
    /\ Len(csv) = 2
    /\ csv[1].ship_date = EmptyDateCell /\ csv[1].delivery_date = EmptyDateCell
    /\ csv[2].ship_date = IsoCell(20) /\ csv[2].delivery_date = IsoCell(18)
    /\ Labels(df) = {1}
    /\ Len(writes) = 1
    /\ writes[1].path = BothDatesLog
    /\ Labels(writes[1].rows) = {0}

(***************************************************************************)
(* C15  log_missing_regions removes and modifies no row, and the three     *)
(* audit views it writes (rows missing origin, rows missing destination,   *)
(* Delivered rows missing either region) are pairwise disjoint: no row is  *)
(* written to more than one of the three logs.                             *)
(***************************************************************************)
MissingOriginLog == "shipments_missing_origin_region.csv"
MissingDestinationLog == "shipments_missing_destination_region.csv"
InconsistentLog == "shipments_inconsistent_regions.csv"

C15_DisjointStep ==
    pc = "log_missing_regions" =>
        /\ df' = df
        /\ Labels(WrittenRows(MissingOriginLog))
              \cap Labels(WrittenRows(MissingDestinationLog)) = {}
        /\ Labels(WrittenRows(MissingOriginLog))
              \cap Labels(WrittenRows(InconsistentLog)) = {}
        /\ Labels(WrittenRows(MissingDestinationLog))
              \cap Labels(WrittenRows(InconsistentLog)) = {}

C15_Disjoint == [][C15_DisjointStep]_vars

(***************************************************************************)
(* C15, amended: log_missing_regions removes and modifies no row and       *)
(* writes three audit views: the rows missing origin, the rows missing     *)
(* destination, and the Delivered rows missing either region.  The views   *)
(* overlap: every row of the third view is in the first or the second.     *)
(***************************************************************************)
C15_ViewsStep ==
    pc = "log_missing_regions" =>
        LET noOrigin == {i \in 1..Len(df) : isnaTxt(df[i].origin_region)}
            noDestination == {i \in 1..Len(df) : isnaTxt(df[i].destination_region)}
            delivered == {i \in 1..Len(df) : df[i].status = Delivered}
        IN  /\ df' = df
            /\ AppendsOnly
            /\ WrittenPaths \subseteq
                  {MissingOriginLog, MissingDestinationLog, InconsistentLog}
            /\ WrittenRows(MissingOriginLog) = RowsAt(df, noOrigin)
            /\ WrittenRows(MissingDestinationLog) = RowsAt(df, noDestination)
            /\ WrittenRows(InconsistentLog) =
                  RowsAt(df, delivered \cap (noOrigin \cup noDestination))
            /\ Labels(WrittenRows(InconsistentLog)) \subseteq
                  Labels(WrittenRows(MissingOriginLog))
                     \cup Labels(WrittenRows(MissingDestinationLog))

C15_Views == [][C15_ViewsStep]_vars

\* a delivered record without origin and destination is in all three logs
C15_Witness ==
    /\ pc = "validate_and_correct_regions" /\ run = 1
    /\ Len(csv) = 2
    /\ csv[1].origin_region = <<>> /\ csv[1].destination_region = <<>>
    /\ csv[1].delivery_date = IsoCell(22)
    /\ Logged(MissingOriginLog) = {0}
    /\ Logged(MissingDestinationLog) = {0}
    /\ Logged(InconsistentLog) = {0}
    /\ Labels(df) = {0, 1}

(***************************************************************************)
(* C16  For every region text that, after trimming the surrounding         *)
(* whitespace and ignoring letter case, equals a valid region name         *)
(* (North, South, East, West) or a known misspelling (Noth, Soth, Eest,    *)
(* Wes), normalize_region_format followed by validate_and_correct_regions  *)
(* leaves the field equal to the canonical valid name (" north " becomes   *)
(* North, "Noth" becomes North); origin_region and destination_region are  *)
(* both treated this way.                                                  *)
(***************************************************************************)
\* the names the claim is about, each with its canonical name
KnownNames ==
    { <<v, v>> : v \in valid_regions }
    \cup { <<corrections[k][1], corrections[k][2]>> : k \in 1..Len(corrections) }

\* the canonical name of a text, or the text itself when it is no known name
CanonicalOf(t) ==
    LET folded == PyLower(PyStrip(t))
        hits == {n \in KnownNames : PyLower(n[1]) = folded}
    IN  IF hits = {} THEN t ELSE (CHOOSE n \in hits : TRUE)[2]

IsKnownName(t) == \E n \in KnownNames : PyLower(n[1]) = PyLower(PyStrip(t))

\* every spelling of a text in upper and lower case letters
RECURSIVE CaseVariants(_)
CaseVariants(t) ==
    IF t = <<>> THEN {<<>>}
    ELSE { <<c>> \o rest : c \in {LowerCh(Head(t)), UpperCh(Head(t))},
                          rest \in CaseVariants(Tail(t)) }

Padded(t) ==
    { t, <<" ">> \o t, t \o <<" ">>, <<" ">> \o t \o <<" ">>, <<" ", " ">> \o t }

RegionSpellings ==
    UNION { Padded(s) : s \in UNION { CaseVariants(n[1]) : n \in KnownNames } }

\* the two functions on every spelling of every known name
C16_EverySpelling ==
    \A t \in RegionSpellings :
        /\ IsKnownName(t)
        /\ CanonicalOf(t) \in valid_regions
        /\ Correct(NormalizeTxt(t)) = CanonicalOf(t)

\* the two stages of main() on the two region fields of every record
C16_Canonical ==
    /\ C16_EverySpelling
    /\ pc = "clean_regions" =>
          \A i \in 1..Len(df) :
              LET raw == csv[df[i].idx + 1]
              IN  /\ IsKnownName(raw.origin_region) =>
                        df[i].origin_region = CanonicalOf(raw.origin_region)
                  /\ IsKnownName(raw.destination_region) =>
                        df[i].destination_region = CanonicalOf(raw.destination_region)

\* the record with origin " north " and destination "WEST " after the two
\* stages
C16_Witness ==
    /\ pc = "clean_regions" /\ run = 1
    /\ Len(csv) = 1
    /\ csv[1].origin_region = <<" ","n","o","r","t","h"," ">>
    /\ csv[1].destination_region = <<"W","E","S","T"," ">>
    /\ df[1].origin_region = North
    /\ df[1].destination_region = West

(***************************************************************************)
(* C17  validate_and_correct_regions removes no row and changes only the   *)
(* field values that are exactly equal to a key of the misspelling table   *)
(* (values such as holiday_period Yes/No, status and the valid region      *)
(* names are left unchanged); it logs exactly the rows whose origin_region *)
(* or destination_region is, after the correction, outside {North, South,  *)
(* East, West}, the rows without a region included.                        *)
(***************************************************************************)
InvalidRegionsLog == "shipments_invalid_regions.csv"

MisspellingKeys == {corrections[k][1] : k \in 1..Len(corrections)}

TextFields == {"origin_region", "destination_region", "holiday_period", "status"}

C17_Step ==
    pc = "validate_and_correct_regions" =>
        /\ Len(df') = Len(df)
        /\ \A i \in 1..Len(df) :
              /\ \A f \in (DOMAIN df[i]) \ TextFields : df'[i][f] = df[i][f]
              /\ \A f \in TextFields :
                    IF df[i][f] \in MisspellingKeys
                    THEN \E k \in 1..Len(corrections) :
                            /\ corrections[k][1] = df[i][f]
                            /\ df'[i][f] = corrections[k][2]
                    ELSE df'[i][f] = df[i][f]
        /\ AppendsOnly
        /\ WrittenPaths \subseteq {InvalidRegionsLog}
        /\ WrittenRows(InvalidRegionsLog) =
              RowsAt(df', {i \in 1..Len(df') :
                              \/ df'[i].origin_region \notin valid_regions
                              \/ df'[i].destination_region \notin valid_regions})

C17_ValidateAndCorrect == [][C17_Step]_vars

\* of a record with the regions "Noth" and "Wes" and a record without an
\* origin, the first is corrected and not logged, the second is logged and
\* stays
C17_Witness ==
    /\ pc = "clean_regions" /\ run = 1
    /\ Len(csv) = 2 /\ Len(df) = 2
    /\ csv[1].origin_region = <<"N","o","t","h">>
    /\ csv[2].origin_region = <<>>
    /\ df[1].origin_region = North /\ df[1].destination_region = West
    /\ df[1].holiday_period = No /\ df[1].status = Delivered
    /\ isnaTxt(df[2].origin_region)
    /\ Logged(InvalidRegionsLog) = {1}

(***************************************************************************)
(* C18  remove_outliers keeps a row if and only if its delivery_days is    *)
(* missing or satisfies 1 <= delivery_days <= 10, both bounds included:    *)
(* 10 days and 1 day are kept; 0 days, negative durations and 11 or 14     *)
(* days are dropped; rows in transit, whose delivery_days is missing, are  *)
(* never dropped.                                                          *)
(***************************************************************************)
\* the duration of row i of the frame, computed from its two dates
DurationAt(frame, i) ==
    IF isna(frame[i].ship_date) \/ isna(frame[i].delivery_date) THEN NaN
    ELSE frame[i].delivery_date - frame[i].ship_date

InWindow(d) == isna(d) \/ (1 <= d /\ d <= 10)

C18_Step ==
    \* remove_outliers as main() calls it, on the delivery_days column
    /\ pc = "remove_outliers" =>
          /\ df' = RowsAt(df, {i \in 1..Len(df) : InWindow(df[i].delivery_days)})
          /\ writes' = writes
    \* remove_outliers inside handle_delivery_durations, after the column
    \* has been recomputed
    /\ (pc = "handle_delivery_durations" \/ CallHandleDeliveryDurations) =>
          LET kept == {i \in 1..Len(df) : InWindow(DurationAt(df, i))}
          IN  /\ Len(df') = Cardinality(kept)
              /\ \A n \in 1..Len(df') :
                    \E i \in kept :
                        /\ Cardinality({j \in kept : j <= i}) = n
                        /\ df'[n] = [df[i] EXCEPT !.delivery_days = DurationAt(df, i)]

C18_Window == [][C18_Step]_vars

\* handle_delivery_durations called on a frame of a record delivered two days
\* before it was shipped and a record delivered after 10 days: the first is
\* dropped, the second is kept
C18_Witness ==
    /\ pc = "stage_call"
    /\ Len(csv) = 2
    /\ csv[1].ship_date = IsoCell(20) /\ csv[1].delivery_date = IsoCell(18)
    /\ csv[2].ship_date = IsoCell(20) /\ csv[2].delivery_date = IsoCell(30)
    /\ Labels(df) = {1}
    /\ df[1].delivery_days = 10
    /\ Len(writes) = 1
    /\ writes[1].path = OutlierLog
    /\ Labels(writes[1].rows) = {0}

(***************************************************************************)
(* C19  On both paths (the stages of main() and handle_delivery_durations) *)
(* detect_outliers runs on the frame before remove_outliers changes it,    *)
(* detect_outliers removes no row, and the set of rows written to the      *)
(* outlier log is exactly the set of rows the following remove_outliers    *)
(* drops.                                                                  *)
(***************************************************************************)
\* the rows remove_outliers drops from a frame
DroppedByWindow(frame) ==
    {frame[i].idx : i \in {j \in 1..Len(frame) : ~InWindow(frame[j].delivery_days)}}

C19_Step ==
    \* main(): detect_outliers, then at once remove_outliers on the same frame
    /\ pc = "detect_outliers" =>
          /\ df' = df
          /\ pc' = "remove_outliers"
          /\ AppendsOnly
          /\ WrittenPaths \subseteq {OutlierLog}
          /\ Labels(WrittenRows(OutlierLog)) = DroppedByWindow(df)
          /\ Rows(WrittenRows(OutlierLog)) \subseteq Rows(df)
    /\ pc = "remove_outliers" =>
          /\ RemovedInStep = DroppedByWindow(df)
          /\ writes' = writes
    \* handle_delivery_durations: both in one call
    /\ (pc = "handle_delivery_durations" \/ CallHandleDeliveryDurations) =>
          /\ AppendsOnly
          /\ WrittenPaths \subseteq {OutlierLog}
          /\ Labels(WrittenRows(OutlierLog)) = RemovedInStep
          /\ \A r \in Rows(WrittenRows(OutlierLog)) : ~InWindow(r.delivery_days)

C19_LogIsDropped == [][C19_Step]_vars

\* main() on a record delivered after 14 days and a record delivered after
\* 2 days: the first is in the outlier log and gone, the second is the frame
C19_Witness ==
    /\ pc = "handle_delivery_durations" /\ run = 1
    /\ Len(csv) = 2
    /\ csv[1].delivery_date = IsoCell(34)
    /\ csv[2].shipment_id = 2 /\ csv[2].delivery_date = IsoCell(22)
    /\ Labels(df) = {1}
    /\ Len(writes) = 1
    /\ writes[1].stage = "detect_outliers"
    /\ writes[1].path = OutlierLog
    /\ Labels(writes[1].rows) = {0}

(***************************************************************************)
(* C20  load_data drops no row, turns every malformed, empty or            *)
(* whitespace-only date text into a missing date instead of raising, and   *)
(* turns every field (origin_region and destination_region included) that  *)
(* holds empty or whitespace-only text into the missing marker before any  *)
(* later stage runs.                                                       *)
(***************************************************************************)
LoadedTextFields == {"origin_region", "destination_region", "holiday_period"}

C20_DatesLoaded ==
    /\ Len(df) = Len(csv)
    /\ \A i \in 1..Len(df) :
          /\ df[i].idx = i - 1
          /\ df[i].shipment_id = csv[i].shipment_id
          /\ csv[i].ship_date.txt \in {"empty", "blank", "bad"} => isna(df[i].ship_date)
          /\ csv[i].delivery_date.txt \in {"empty", "blank", "bad"}
                => isna(df[i].delivery_date)
          /\ csv[i].ship_date.txt = "iso" => df[i].ship_date = csv[i].ship_date.day
          /\ csv[i].delivery_date.txt = "iso"
                => df[i].delivery_date = csv[i].delivery_date.day

C20_LoadedState ==
    pc = "fix_missing_ids" =>
        /\ C20_DatesLoaded
        /\ \A i \in 1..Len(df) : \A f \in LoadedTextFields :
              /\ csv[i][f] = <<>> => isnaTxt(df[i][f])
              /\ (csv[i][f] # <<>> /\ PyStrip(csv[i][f]) = <<>>) => df[i][f] = csv[i][f]

C20_LoadStep ==
    pc = "load_data" => (pc' = "fix_missing_ids" /\ Len(df') = Len(csv))

C21_WriteOnce ==
    run = 1 =>
        \A i, j \in 1..Len(writes) :
            i < j => writes[i].path # writes[j].path

(***************************************************************************)
(* C21, amended: during one run of main() a log path is written by at most *)
(* two stage invocations, and only a region audit log is written twice:    *)
(* first by log_missing_regions or validate_and_correct_regions and then   *)
(* again, with the same set of records, by the clean_regions call that     *)
(* repeats them.  Every other log is written at most once.                 *)
(***************************************************************************)
RegionAuditStage ==
    [p \in {MissingOriginLog, MissingDestinationLog, InconsistentLog,
            InvalidRegionsLog} |->
        IF p = InvalidRegionsLog THEN "validate_and_correct_regions"
        ELSE "log_missing_regions"]

C21_RewrittenByCleanRegions ==
    run = 1 =>
        /\ \A i, j \in 1..Len(writes) :
              (i < j /\ writes[i].path = writes[j].path) =>
                  /\ writes[i].path \in DOMAIN RegionAuditStage
                  /\ writes[i].stage = RegionAuditStage[writes[i].path]
                  /\ writes[j].stage = "clean_regions"
                  /\ Labels(writes[i].rows) = Labels(writes[j].rows)
        /\ \A i, j, k \in 1..Len(writes) :
              (i < j /\ j < k) =>
                  ~(writes[i].path = writes[j].path /\ writes[j].path = writes[k].path)

\* the invalid-regions log written by validate_and_correct_regions and again
\* by clean_regions
C21_Witness ==
    /\ pc = "drop_shipments_missing_both_regions" /\ run = 1
    /\ Len(writes) = 2
    /\ writes[1].path = InvalidRegionsLog /\ writes[2].path = InvalidRegionsLog
    /\ writes[1].stage = "validate_and_correct_regions"
    /\ writes[2].stage = "clean_regions"

(***************************************************************************)
(* C22  A record that enters main() without shipment_id, with a valid      *)
(* ship_date, a delivery_date two days later and valid regions, in a file  *)
(* with at least one id, is given a new id greater than the file's         *)
(* maximum id, is in the id-reassignment log with its new id, is in no     *)
(* rejection log, and is in the final record set with status Delivered     *)
(* and delivery_days 2.                                                    *)
(***************************************************************************)
ReassignedLog == "shipments_reassigned_ids.csv"

\* the rows of the file that are the record of the scenario
ScenarioARows ==
    {i \in 1..Len(csv) :
        /\ isna(csv[i].shipment_id)
        /\ csv[i].ship_date = IsoCell(20)
        /\ csv[i].delivery_date = IsoCell(22)
        /\ csv[i].origin_region \in valid_regions
        /\ csv[i].destination_region \in valid_regions}

C22_ScenarioA ==
    (run = 1 /\ IdsOf(csv) # {}) =>
        \A i \in ScenarioARows :
            /\ pc # "aborted"
            /\ \A p \in RejectionLogs : (i - 1) \notin Logged(p)
            /\ pc \notin {"load_data", "fix_missing_ids"} =>
                  /\ (i - 1) \in Labels(df)
                  /\ \A x \in IdsOf(csv) : RowAt(df, i - 1).shipment_id > x
                  /\ (i - 1) \in Logged(ReassignedLog)
                  /\ RowAt(FileRows(ReassignedLog), i - 1).shipment_id
                        = RowAt(df, i - 1).shipment_id
            /\ pc = "done" =>
                  /\ RowAt(df, i - 1).status = Delivered
                  /\ RowAt(df, i - 1).delivery_days = 2
                  /\ \E n \in 1..Len(outputs[1]) :
                        /\ outputs[1][n].shipment_id = RowAt(df, i - 1).shipment_id
                        /\ outputs[1][n].status = Delivered
                        /\ outputs[1][n].delivery_days = 2

\* the record of the scenario, second in a file whose first record has id 2,
\* at the end of main()
C22_Witness ==
    /\ Finished /\ run = 1
    /\ Len(csv) = 2
    /\ csv[1].shipment_id = 2
    /\ ScenarioARows = {2}
    /\ RowAt(df, 1).shipment_id = 3
    /\ RowAt(df, 1).status = Delivered
    /\ RowAt(df, 1).delivery_days = 2
    /\ Logged(ReassignedLog) = {1}

(***************************************************************************)
(* C23  In the stage order of main(), handle_missing_ship_dates always     *)
(* runs before handle_invalid_delivery_date, so the date-order check never *)
(* sees a record without ship_date; and handle_missing_delivery_date,      *)
(* which creates status, always runs before the first stage that reads     *)
(* status (log_missing_regions).                                           *)
(***************************************************************************)
\* the stages of main() from handle_missing_delivery_date up to the first
\* reader of status
BetweenStatusAndReader ==
    {"handle_both_missing_dates", "normalize_region_format", "log_missing_regions"}

C23_State ==
    /\ pc = "handle_invalid_delivery_date" =>
          \A i \in 1..Len(df) : ~isna(df[i].ship_date)
    /\ pc \in BetweenStatusAndReader =>
          \A i \in 1..Len(df) : df[i].status \in {Delivered, InTransit}
    /\ pc = "log_missing_regions" =>
          \A i \in 1..Len(df) :
              df[i].status = (IF isna(df[i].delivery_date) THEN InTransit ELSE Delivered)

C23_OrderStep ==
    /\ pc' = "handle_invalid_delivery_date" => pc = "handle_missing_ship_dates"
    /\ pc' = "handle_both_missing_dates" => pc = "handle_missing_delivery_date"
    /\ pc' = "log_missing_regions" => pc = "normalize_region_format"
    /\ pc' = "normalize_region_format" => pc = "handle_both_missing_dates"
    /\ pc = "handle_missing_ship_dates" => pc' = "handle_invalid_delivery_date"
    /\ pc = "handle_invalid_delivery_date" => pc' = "handle_missing_delivery_date"

C23_Order == []C23_State /\ [][C23_OrderStep]_vars

\* a record in transit and a record without ship_date: when
\* log_missing_regions is about to run the second is gone and the first has
\* its status
C23_Witness ==
    /\ pc = "log_missing_regions" /\ run = 1
    /\ Len(csv) = 2
    /\ csv[1].delivery_date = EmptyDateCell /\ csv[1].ship_date = IsoCell(20)
    /\ csv[2].ship_date = EmptyDateCell /\ csv[2].delivery_date = IsoCell(22)
    /\ csv[1].shipment_id = 1 /\ csv[2].shipment_id = 2
    /\ Labels(df) = {0}
    /\ df[1].status = InTransit

(***************************************************************************)
(* C24  drop_shipments_missing_both_regions removes and logs exactly the   *)
(* records whose origin_region and destination_region are both missing or  *)
(* blank; drop_shipments_with_missing_region then removes and logs exactly *)
(* the remaining records with either region missing or blank;              *)
(* remove_invalid_region_strings then removes and logs exactly the records *)
(* with either region equal, whatever the letter case, to one of none,     *)
(* nan, null, undefined, missing or a lone space.  After the three filters *)
(* no surviving record has a missing, blank or placeholder region.         *)
(***************************************************************************)
MissingBothRegionsLog == "shipments_missing_both_regions.csv"
MissingRegionLog == "shipments_missing_region.csv"
InvalidRegionTextLog == "shipments_invalid_region_text.csv"

NullOrBlank(t) == isnaTxt(t) \/ \A k \in 1..Len(t) : t[k] = " "

Placeholders ==
    { <<"n","o","n","e">>, <<"n","a","n">>, <<"n","u","l","l">>,
      <<"u","n","d","e","f","i","n","e","d">>, <<"m","i","s","s","i","n","g">>,
      <<" ">> }

IsPlaceholder(t) == ~isnaTxt(t) /\ PyLower(t) \in Placeholders

\* the step removes the rows at the positions of the set at and writes them,
\* and nothing else, to the log
RemovesAndLogs(at, log) ==
    /\ df' = RowsAt(df, (1..Len(df)) \ at)
    /\ AppendsOnly
    /\ WrittenPaths \subseteq {log}
    /\ WrittenRows(log) = RowsAt(df, at)

C24_Step ==
    /\ pc = "drop_shipments_missing_both_regions" =>
          RemovesAndLogs({i \in 1..Len(df) :
                            /\ NullOrBlank(df[i].origin_region)
                            /\ NullOrBlank(df[i].destination_region)},
                         MissingBothRegionsLog)
    /\ pc = "drop_shipments_with_missing_region" =>
          RemovesAndLogs({i \in 1..Len(df) :
                            \/ NullOrBlank(df[i].origin_region)
                            \/ NullOrBlank(df[i].destination_region)},
                         MissingRegionLog)
    /\ pc = "remove_invalid_region_strings" =>
          RemovesAndLogs({i \in 1..Len(df) :
                            \/ IsPlaceholder(df[i].origin_region)
                            \/ IsPlaceholder(df[i].destination_region)},
                         InvalidRegionTextLog)

C24_AfterFilters ==
    pc = "calculate_delivery_days" =>
        \A i \in 1..Len(df) :
            /\ ~NullOrBlank(df[i].origin_region)
            /\ ~NullOrBlank(df[i].destination_region)
            /\ ~IsPlaceholder(df[i].origin_region)
            /\ ~IsPlaceholder(df[i].destination_region)

C24_RegionFilters == [][C24_Step]_vars /\ []C24_AfterFilters

\* a record with origin "NONE" and a record with valid regions: after the
\* three filters the first is in the placeholder log and gone
C24_Witness ==
    /\ pc = "calculate_delivery_days" /\ run = 1
    /\ Len(csv) = 2
    /\ csv[1].origin_region = <<"N","O","N","E">>
    /\ csv[2].shipment_id = 2
    /\ Labels(df) = {1}
    /\ Logged(InvalidRegionTextLog) = {0}

(***************************************************************************)
(* C25  For every frame given to handle_invalid_delivery_date, frames that *)
(* still hold records without ship_date included (the stage run without   *)
(* or before handle_missing_ship_dates), the set of records the function   *)
(* removes equals the set of records it writes to the invalid-delivery-    *)
(* dates log: no record is removed without being logged.                   *)
(***************************************************************************)
C25_Step ==
    (pc = "handle_invalid_delivery_date" \/ CallHandleInvalidDeliveryDate) =>
        RemovedInStep = Labels(WrittenRows(InvalidDeliveryLog))

C25_RemovedIsLogged == [][C25_Step]_vars

(***************************************************************************)
(* C26  In main() the second duration pass (handle_delivery_durations,     *)
(* called right after calculate_delivery_days, detect_outliers and         *)
(* remove_outliers) removes no record, leaves every delivery_days value    *)
(* unchanged and neither overwrites nor empties the outlier log the first  *)
(* detect_outliers call wrote: a log is written only when a record         *)
(* triggers its rule.                                                      *)
(***************************************************************************)
C26_Step ==
    pc = "handle_delivery_durations" =>
        /\ df' = df
        /\ writes' = writes
        /\ FileRowsIn(writes', OutlierLog) = FileRows(OutlierLog)

C26_SecondPass == [][C26_Step]_vars

\* after the second pass the outlier log still holds the record of 11 days
\* that detect_outliers wrote
C26_Witness ==
    /\ pc = "save_cleaned_data" /\ run = 1
    /\ Len(csv) = 2
    /\ csv[1].delivery_date = IsoCell(31)
    /\ csv[2].shipment_id = 2
    /\ Labels(df) = {1}
    /\ Len(writes) = 1
    /\ writes[1].stage = "detect_outliers"
    /\ Labels(FileRows(OutlierLog)) = {0}
    /\ FileRows(OutlierLog)[1].delivery_days = 11

(***************************************************************************)
(* C27  Region normalization and correction are idempotent: in main() the  *)
(* call of clean_regions that follows normalize_region_format,             *)
(* log_missing_regions and validate_and_correct_regions changes no field   *)
(* of any record, removes no record, and rewrites the missing-origin,      *)
(* missing-destination, inconsistent-regions and invalid-regions logs with *)
(* the same record sets as the first pass.                                 *)
(***************************************************************************)
C27_Step ==
    pc = "clean_regions" =>
        /\ df' = df
        /\ AppendsOnly
        /\ WrittenPaths \subseteq DOMAIN RegionAuditStage
        /\ \A k \in (Len(writes) + 1)..Len(writes') : writes'[k].rows # <<>>
        /\ run = 1 =>
              \A p \in DOMAIN RegionAuditStage :
                  Labels(WrittenRows(p)) = Labels(FileRows(p))

\* the second pass leaves the frame as the first pass left it
C27_FixedPoint ==
    pc = "clean_regions" =>
        /\ normalize_region_format_df(df) = df
        /\ validate_and_correct_regions_df(df) = df

C27_Idempotent == [][C27_Step]_vars /\ []C27_FixedPoint

\* a record without origin and a record with valid regions: the three logs
\* the first pass wrote are written again by clean_regions
C27_Witness ==
    /\ pc = "drop_shipments_missing_both_regions" /\ run = 1
    /\ Len(csv) = 2
    /\ csv[1].origin_region = <<>> /\ csv[1].delivery_date = IsoCell(22)
    /\ Len(writes) = 6
    /\ \A k \in 1..3 :
          /\ writes[k].stage # "clean_regions"
          /\ writes[k + 3].stage = "clean_regions"
          /\ writes[k + 3].path = writes[k].path
          /\ Labels(writes[k + 3].rows) = {0}
          /\ Labels(writes[k].rows) = {0}
    /\ Labels(df) = {0, 1}

(***************************************************************************)
(* C28  When remove_duplicate_shipment_ids runs directly after             *)
(* fix_missing_ids, as in main(), no record whose id fix_missing_ids       *)
(* assigned is logged as a duplicate or removed as one: the new ids        *)
(* collide neither with an id of the file nor with each other, so the      *)
(* duplicate log holds only records that had an id in the input.           *)
(***************************************************************************)
\* the labels of the records of the file without an id
InputMissingLabels == {i - 1 : i \in InputMissing}

C28_Step ==
    (pc = "remove_duplicate_shipment_ids" /\ run = 1) =>
        /\ InputMissingLabels \subseteq Labels(df)
        /\ InputMissingLabels \subseteq Labels(df')
        /\ InputMissingLabels \cap Labels(WrittenRows(DuplicateLog)) = {}
        /\ \A i, j \in 1..Len(df) :
              (i # j /\ df[i].idx \in InputMissingLabels)
                  => df[i].shipment_id # df[j].shipment_id

C28_LogState ==
    run = 1 => Logged(DuplicateLog) \cap InputMissingLabels = {}

C28_NewIdsNoDuplicates == [][C28_Step]_vars /\ []C28_LogState

\* a file with the ids 1, none, 1: the record without id got id 2 and stays,
\* the two records with id 1 are logged and the second of them is removed
C28_Witness ==
    /\ pc = "handle_missing_ship_dates" /\ run = 1
    /\ Len(csv) = 3
    /\ csv[1].shipment_id = 1 /\ isna(csv[2].shipment_id) /\ csv[3].shipment_id = 1
    /\ Labels(df) = {0, 1}
    /\ RowAt(df, 1).shipment_id = 2
    /\ Logged(DuplicateLog) = {0, 2}

(***************************************************************************)
(* C29  Duplicates are removed before the date, region and duration        *)
(* checks, so the survivor of a duplicated id is chosen without regard to  *)
(* validity: if the first occurrence of a duplicated shipment_id is later  *)
(* rejected by a date, region or duration rule, no record with that id is  *)
(* in the final record set, even when a later occurrence of the id was     *)
(* fully valid.                                                            *)
(***************************************************************************)
\* the ids that occur more than once in the file, each with the label of
\* its first occurrence
DuplicatedInputIds ==
    {x \in IdsOf(csv) :
        Cardinality({i \in 1..Len(csv) : csv[i].shipment_id = x}) > 1}

FirstLabelOf(x) ==
    (CHOOSE i \in 1..Len(csv) :
        /\ csv[i].shipment_id = x
        /\ \A j \in 1..Len(csv) : csv[j].shipment_id = x => i <= j) - 1

C29_FirstOccurrenceDecides ==
    (Finished /\ run = 1) =>
        \A x \in DuplicatedInputIds :
            FirstLabelOf(x) \notin Labels(df) =>
                /\ x \notin IdsOf(df)
                /\ \A n \in 1..Len(outputs[1]) : outputs[1][n].shipment_id # x

\* two records with id 1, the first delivered before it was shipped, the
\* second valid: the final record set is empty
C29_Witness ==
    /\ Finished /\ run = 1
    /\ Len(csv) = 2
    /\ csv[1].shipment_id = 1 /\ csv[2].shipment_id = 1
    /\ csv[1].delivery_date = IsoCell(18)
    /\ csv[2].delivery_date = IsoCell(22)
    /\ csv[2].origin_region = North /\ csv[2].destination_region = South
    /\ df = <<>>
    /\ outputs[1] = <<>>
    /\ Logged(DuplicateLog) = {0, 1}
    /\ Logged(InvalidDeliveryLog) = {0}

(***************************************************************************)
(* C30  In the stage order of main() every record that reaches             *)
(* detect_outliers has delivery_days missing or >= 0 (the negative         *)
(* durations were removed by handle_invalid_delivery_date), so the outlier *)
(* log holds only records with delivery_days = 0 or delivery_days > 10,    *)
(* and every surviving Delivered record has delivery_date strictly later   *)
(* than ship_date.                                                         *)
(***************************************************************************)
C30_State ==
    /\ pc = "detect_outliers" =>
          \A i \in 1..Len(df) :
              isna(df[i].delivery_days) \/ df[i].delivery_days >= 0
    /\ \A r \in Rows(FileRows(OutlierLog)) :
          /\ ~isna(r.delivery_days)
          /\ (r.delivery_days = 0 \/ r.delivery_days > 10)
    /\ pc \in {"handle_delivery_durations", "save_cleaned_data", "done"} =>
          \A i \in 1..Len(df) :
              df[i].status = Delivered =>
                  /\ ~isna(df[i].ship_date)
                  /\ ~isna(df[i].delivery_date)
                  /\ df[i].delivery_date > df[i].ship_date

C30_DetectStep ==
    pc = "detect_outliers" =>
        \A r \in Rows(WrittenRows(OutlierLog)) :
            r.delivery_days = 0 \/ r.delivery_days > 10

C30_NoNegativeDurations == []C30_State /\ [][C30_DetectStep]_vars

\* a record delivered on the day it was shipped and a record delivered two
\* days after: the first is in the outlier log with 0 days, the second is
\* the final record set
C30_Witness ==
    /\ Finished /\ run = 1
    /\ Len(csv) = 2
    /\ csv[1].ship_date = IsoCell(20) /\ csv[1].delivery_date = IsoCell(20)
    /\ csv[2].shipment_id = 2
    /\ Labels(df) = {1}
    /\ df[1].status = Delivered
    /\ df[1].delivery_date > df[1].ship_date
    /\ Labels(FileRows(OutlierLog)) = {0}
    /\ FileRows(OutlierLog)[1].delivery_days = 0

=============================================================================
